---- MODULE Spec2Model ----
(***************************************************************************)
(* A model of monitor.js, the Growatt inverter notification bot: the       *)
(* persisted state (config / stats / status), the telemetry cache, the     *)
(* scheduled handlers (hourly, per-minute, daily) and the period           *)
(* aggregator.                                                             *)
(*                                                                         *)
(* Time is the local wall clock in whole minutes since the epoch; a day is *)
(* 1440 minutes.  A handler that awaits is split at its await: the part    *)
(* before the await and the part after it are separate atomic actions, as  *)
(* the JavaScript event loop runs them.                                    *)
(***************************************************************************)
EXTENDS Integers, Sequences, FiniteSets, TLC

VARIABLES
    now,        \* new Date() / Date.now(): the wall clock, in minutes
    state,      \* let state = loadState(): [config, stats, status]
    disk,       \* bot_state.json
    apiCache,   \* let apiCache = { data, timestamp }
    pending,    \* handlers suspended at their await, per handler
    sent,       \* what formatMarkdown sent to the group in the last step
    escalated,  \* an URGENT_ALERT_MESSAGE was sent since the last RECOVERY_MESSAGE
    announced,  \* the milestone values MILESTONE_MESSAGE has announced so far
    calls,      \* the getGrowattData calls in progress, step by step
    agg,        \* the getPeriodTotal call in progress
    ret,        \* what the last getGrowattData / getPeriodTotal call returned
    lookups     \* the SET_ commands suspended at await isAdmin

vars == <<now, state, disk, apiCache, pending, sent, escalated, announced,
          calls, agg, ret, lookups>>

-----------------------------------------------------------------------------
(* Program constants (monitor.js lines 19-29).                             *)

DEFAULT_COST_PER_KWH == 32          \* 0.32, in hundredths
DEFAULT_CLEANING_WEEKS == 4
DEFAULT_TEMP_THRESHOLD_C == 60
CHECK_HOUR_START == 10
CHECK_HOUR_END == 15
URGENT_ALERT_DELAY_MINUTES == 15
MILESTONE_STEP_KWH == 1000
LIVENESS_CHECK_HOURS == 2
COOLDOWN_HOURS == 6                 \* the literal 6 of both cooldown tests
CACHE_FRESH_MINUTES == 2            \* 120000 ms

MinutesPerHour == 60
MinutesPerDay == 1440

-----------------------------------------------------------------------------
(* Bounds of the model.                                                    *)

Horizon == 8       \* the clock advances at most this many times
StartDay == 30      \* the day of the epoch on which the clock starts
MaxInFlight == 1    \* handler invocations suspended at an await at one time
MaxOverlap == 2     \* hourly checks suspended at once where checks overlap
Quarters == 10      \* quarters of an hour the clock of the escalation advances
MaxCalls == 2       \* getGrowattData calls in progress at one time
CacheHorizon == 4   \* minutes the clock of the telemetry cache advances
StatsHorizon == 16  \* instants the clock of the daily statistics advances

-----------------------------------------------------------------------------
(* JavaScript values.  A timestamp-valued field holds null, a Date, or the *)
(* ISO string JSON.stringify makes of a Date.                              *)

Null == [tag |-> "null", t |-> 0]
DateAt(t) == [tag |-> "Date", t |-> t]
Iso(t) == [tag |-> "iso", t |-> t]
Ymd(d) == [tag |-> "ymd", t |-> d]

\* if (x) ...
Truthy(x) == x.tag # "null"

\* new Date(x): null is the epoch, a Date or an ISO string is its instant
NewDate(x) == IF x.tag = "null" THEN DateAt(0) ELSE DateAt(x.t)

\* JSON.stringify of a timestamp-valued field: a Date becomes its ISO string
ToJSON(x) == IF x.tag = "Date" THEN Iso(x.t) ELSE x

\* Math.trunc(n / d) for d > 0
Trunc(n, d) == IF n >= 0 THEN n \div d ELSE -((-n) \div d)

differenceInMinutes(a, b) == Trunc(a.t - b.t, 1)
differenceInHours(a, b) == Trunc(a.t - b.t, MinutesPerHour)
differenceInDays(a, b) == Trunc(a.t - b.t, MinutesPerDay)

\* new Date().getHours()
getHours(t) == (t \div MinutesPerHour) % 24

\* format(date, 'yyyy-MM-dd'): the calendar day
DayOf(t) == t \div MinutesPerDay

-----------------------------------------------------------------------------
(* The state and its persistence.                                          *)

DefaultConfig ==
    [language |-> "en", costPerKwh |-> DEFAULT_COST_PER_KWH,
     currencySymbol |-> "TND", cleaningIntervalWeeks |-> DEFAULT_CLEANING_WEEKS,
     tempThreshold |-> DEFAULT_TEMP_THRESHOLD_C]

DefaultStats ==
    [lastReminderDate |-> DateAt(0), nextMilestoneKwh |-> MILESTONE_STEP_KWH,
     bestDay |-> [date |-> Null, kwh |-> 0],
     lastLivenessAlert |-> Null, lastTempAlert |-> Null]

DefaultStatus ==
    [isSystemDown |-> FALSE, outageStartTime |-> Null, urgentAlertSent |-> FALSE]

DefaultState ==
    [config |-> DefaultConfig, stats |-> DefaultStats, status |-> DefaultStatus]

AbsentFile == [kind |-> "absent"]

\* JSON.stringify(state, null, 2), written to bot_state.json
Stringify(s) ==
    [kind |-> "json",
     config |-> s.config,
     stats |-> [s.stats EXCEPT !.lastReminderDate = ToJSON(@),
                               !.lastLivenessAlert = ToJSON(@),
                               !.lastTempAlert = ToJSON(@)],
     status |-> [s.status EXCEPT !.outageStartTime = ToJSON(@)]]

-----------------------------------------------------------------------------
(* Telemetry snapshots.  shape says which part of the plant / device       *)
(* structure the vendor returned.                                          *)

NoData ==
    [shape |-> "null", date |-> 0, pac |-> 0, temperature |-> 0,
     lastUpdateTime |-> 0, eToday |-> 0, eTotal |-> 0, eacToday |-> 0]

Snapshot(shape, date, pac, temperature, lastUpdateTime, eToday, eTotal, eacToday) ==
    [shape |-> shape, date |-> date, pac |-> pac, temperature |-> temperature,
     lastUpdateTime |-> lastUpdateTime, eToday |-> eToday, eTotal |-> eTotal,
     eacToday |-> eacToday]

ApiError == [shape |-> "error", date |-> 0, pac |-> 0, temperature |-> 0,
             lastUpdateTime |-> 0, eToday |-> 0, eTotal |-> 0, eacToday |-> 0]

\* lines 93-95 without the test of isToday
CacheAfterFetch_AnyDate(cache, isToday, result, t) ==
    IF result.shape # "error"
    THEN [data |-> result, timestamp |-> t]
    ELSE cache

\* The cache after a live fetch ends with `result`, started while the target
\* date was (isToday) or was not today
CacheAfterFetch(cache, isToday, result, t) ==
    IF result.shape # "error" /\ isToday
    THEN [data |-> result, timestamp |-> t]
    ELSE cache

-----------------------------------------------------------------------------
(* runHourlyChecks.                                                        *)

Msg(key, arg) == <<key, arg>>

Handlers == {"runHourlyChecks", "runDailyEveningChecks"}

\* the number of suspended handler invocations
InFlight(p) == p["runHourlyChecks"] + p["runDailyEveningChecks"]

\* a gate whose upper end is one hour late
OutsideWindow_LateEnd(t) ==
    getHours(t) < CHECK_HOUR_START \/ getHours(t) > CHECK_HOUR_END + 1

OutsideWindow(t) ==
    getHours(t) < CHECK_HOUR_START \/ getHours(t) > CHECK_HOUR_END

\* a reset that forgets outageStartTime
ResetStatus_KeepsStart(s) ==
    [s EXCEPT !.status.isSystemDown = FALSE, !.status.urgentAlertSent = FALSE]

ResetStatus(s) ==
    [s EXCEPT !.status = [isSystemDown |-> FALSE, outageStartTime |-> Null,
                          urgentAlertSent |-> FALSE]]

\* reads that take a missing device for a device that reports nothing
HourlyThrows_MissingDeviceIsZero(snap) ==
    snap.shape \in {"noPlant", "noDevices"}

\* lines 434-438: reading the snapshot throws a TypeError
HourlyThrows(snap) ==
    snap.shape \in {"noPlant", "noDevices", "noDevice", "noHistory", "noDeviceData"}

LivenessDue(s, snap, t) ==
    /\ differenceInHours(DateAt(t), DateAt(snap.lastUpdateTime)) >= LIVENESS_CHECK_HOURS
    /\ \/ ~Truthy(s.stats.lastLivenessAlert)
       \/ differenceInHours(DateAt(t), NewDate(s.stats.lastLivenessAlert)) >= COOLDOWN_HOURS

\* a temperature test gated by the liveness stamp
TempDue_SharedStamp(s, snap, t) ==
    /\ snap.temperature >= s.config.tempThreshold
    /\ \/ ~Truthy(s.stats.lastLivenessAlert)
       \/ differenceInHours(DateAt(t), NewDate(s.stats.lastLivenessAlert)) >= COOLDOWN_HOURS

TempDue(s, snap, t) ==
    /\ snap.temperature >= s.config.tempThreshold
    /\ \/ ~Truthy(s.stats.lastTempAlert)
       \/ differenceInHours(DateAt(t), NewDate(s.stats.lastTempAlert)) >= COOLDOWN_HOURS

AfterLiveness(s, snap, t) ==
    IF LivenessDue(s, snap, t)
    THEN [s EXCEPT !.stats.lastLivenessAlert = DateAt(t)]
    ELSE s

AfterTemp(s, snap, t) ==
    IF TempDue(s, snap, t)
    THEN [s EXCEPT !.stats.lastTempAlert = DateAt(t)]
    ELSE s

\* a recovery test that forgets the current state
Recovers_AnyState(s, snap) == snap.pac > 0

Recovers(s, snap) == snap.pac > 0 /\ s.status.isSystemDown

\* an onset test that forgets the current state
OutageBegins_AnyState(s, snap) == snap.pac = 0

OutageBegins(s, snap) == snap.pac = 0 /\ ~s.status.isSystemDown

AfterOutage(s, snap, t) ==
    IF Recovers(s, snap) THEN ResetStatus(s)
    ELSE IF OutageBegins(s, snap)
         THEN [s EXCEPT !.status.isSystemDown = TRUE,
                        !.status.outageStartTime = DateAt(t)]
         ELSE s

\* lines 441-459, the state after the three tests in their order
HourlyEval(s, snap, t) ==
    AfterOutage(AfterTemp(AfterLiveness(s, snap, t), snap, t), snap, t)

HourlyMessages(s, snap, t) ==
    LET s1 == AfterLiveness(s, snap, t)
        s2 == AfterTemp(s1, snap, t)
    IN  (IF LivenessDue(s, snap, t)
         THEN {Msg("LIVENESS_ALERT", differenceInHours(DateAt(t), DateAt(snap.lastUpdateTime)))}
         ELSE {})
        \cup (IF TempDue(s1, snap, t) THEN {Msg("TEMP_ALERT", snap.temperature)} ELSE {})
        \cup (IF Recovers(s2, snap) THEN {Msg("RECOVERY_MESSAGE", snap.pac)} ELSE {})
        \cup (IF ~Recovers(s2, snap) /\ OutageBegins(s2, snap)
              THEN {Msg("OUTAGE_MESSAGE", 0)} ELSE {})

\* lines 420-431: the window gate; inside the window the handler suspends at
\* await getGrowattData(true)
runHourlyChecksAt(t, limit) ==
    /\ sent' = {}
    /\ IF OutsideWindow(t)
       THEN /\ state' = IF state.status.isSystemDown THEN ResetStatus(state) ELSE state
            /\ disk' = IF state.status.isSystemDown THEN Stringify(state') ELSE disk
            /\ UNCHANGED pending
       ELSE /\ InFlight(pending) < limit
            /\ pending' = [pending EXCEPT !["runHourlyChecks"] = @ + 1]
            /\ UNCHANGED <<state, disk>>
    /\ UNCHANGED <<apiCache, escalated, announced, calls, agg, ret, lookups>>

\* the handler starts at the present time, with fewer than `limit` suspended
runHourlyChecksWhile(limit) ==
    /\ runHourlyChecksAt(now, limit)
    /\ UNCHANGED now

\* the same, with at most MaxInFlight handlers suspended
runHourlyChecks == runHourlyChecksWhile(MaxInFlight)

\* lines 433-460: the fetch returns `result` and the handler runs to its end
runHourlyChecksResume(result) ==
    /\ pending["runHourlyChecks"] > 0
    /\ pending' = [pending EXCEPT !["runHourlyChecks"] = @ - 1]
    /\ apiCache' = CacheAfterFetch(apiCache, TRUE, result, now)
    /\ IF result.shape = "error" \/ HourlyThrows(result)
       THEN /\ sent' = {}
            /\ UNCHANGED <<state, disk, escalated>>
       ELSE /\ state' = HourlyEval(state, result, now)
            /\ sent' = HourlyMessages(state, result, now)
            /\ disk' = IF state' # state THEN Stringify(state') ELSE disk
            /\ escalated' = IF Msg("RECOVERY_MESSAGE", result.pac) \in sent'
                            THEN FALSE ELSE escalated
    /\ UNCHANGED <<now, announced, calls, agg, ret, lookups>>

-----------------------------------------------------------------------------
(* checkUrgentConditions, lines 463-471.                                   *)

\* an escalation test that needs more than the delay
UrgentDue_Strict(s, t) ==
    /\ s.status.isSystemDown
    /\ ~s.status.urgentAlertSent
    /\ Truthy(s.status.outageStartTime)
    /\ differenceInMinutes(DateAt(t), NewDate(s.status.outageStartTime))
           > URGENT_ALERT_DELAY_MINUTES

UrgentDue(s, t) ==
    /\ s.status.isSystemDown
    /\ ~s.status.urgentAlertSent
    /\ Truthy(s.status.outageStartTime)
    /\ differenceInMinutes(DateAt(t), NewDate(s.status.outageStartTime))
           >= URGENT_ALERT_DELAY_MINUTES

\* lines 463-471 without line 469: the flag is set in memory only
checkUrgentConditions_NoSave ==
    /\ IF UrgentDue(state, now)
       THEN /\ state' = [state EXCEPT !.status.urgentAlertSent = TRUE]
            /\ sent' = {Msg("URGENT_ALERT_MESSAGE", URGENT_ALERT_DELAY_MINUTES)}
            /\ escalated' = TRUE
            /\ UNCHANGED disk
       ELSE /\ sent' = {}
            /\ UNCHANGED <<state, disk, escalated>>
    /\ UNCHANGED <<now, apiCache, pending, announced, calls, agg, ret, lookups>>

checkUrgentConditions ==
    /\ IF UrgentDue(state, now)
       THEN /\ state' = [state EXCEPT !.status.urgentAlertSent = TRUE]
            /\ sent' = {Msg("URGENT_ALERT_MESSAGE", URGENT_ALERT_DELAY_MINUTES)}
            /\ disk' = Stringify(state')
            /\ escalated' = TRUE
       ELSE /\ sent' = {}
            /\ UNCHANGED <<state, disk, escalated>>
    /\ UNCHANGED <<now, apiCache, pending, announced, calls, agg, ret, lookups>>

-----------------------------------------------------------------------------
(* runDailyEveningChecks, lines 364-387.                                   *)

\* lines 368-371: reading the snapshot throws a TypeError
DailyThrows(snap) ==
    snap.shape \in {"noPlant", "noDevices", "noDevice", "noDeviceData"}

\* line 373 with >= for >
BestDayBeaten_OrEqual(s, snap) == snap.eToday >= s.stats.bestDay.kwh

\* line 373
BestDayBeaten(s, snap) == snap.eToday > s.stats.bestDay.kwh

AfterBestDay(s, snap, t) ==
    IF BestDayBeaten(s, snap)
    THEN [s EXCEPT !.stats.bestDay = [date |-> Ymd(DayOf(t)), kwh |-> snap.eToday]]
    ELSE s

MilestoneReached(s, snap) == snap.eTotal >= s.stats.nextMilestoneKwh

\* the multiple of the step at or below the total
NextMilestone_Floor(eTotal) ==
    (eTotal \div MILESTONE_STEP_KWH) * MILESTONE_STEP_KWH

\* Math.floor(eTotal / MILESTONE_STEP_KWH) * MILESTONE_STEP_KWH + MILESTONE_STEP_KWH
NextMilestone(eTotal) ==
    (eTotal \div MILESTONE_STEP_KWH) * MILESTONE_STEP_KWH + MILESTONE_STEP_KWH

AfterMilestone(s, snap) ==
    IF MilestoneReached(s, snap)
    THEN [s EXCEPT !.stats.nextMilestoneKwh = NextMilestone(snap.eTotal)]
    ELSE s

\* line 381 with > for >=
CleaningDue_Late(s, t) ==
    differenceInDays(DateAt(t), NewDate(s.stats.lastReminderDate))
        > s.config.cleaningIntervalWeeks * 7

\* line 381
CleaningDue(s, t) ==
    differenceInDays(DateAt(t), NewDate(s.stats.lastReminderDate))
        >= s.config.cleaningIntervalWeeks * 7

AfterCleaning(s, t) ==
    IF CleaningDue(s, t)
    THEN [s EXCEPT !.stats.lastReminderDate = DateAt(t)]
    ELSE s

DailyEval(s, snap, t) ==
    AfterCleaning(AfterMilestone(AfterBestDay(s, snap, t), snap), t)

DailyMessages(s, snap, t) ==
    (IF BestDayBeaten(s, snap) THEN {Msg("BEST_DAY_MESSAGE", snap.eToday)} ELSE {})
    \cup (IF MilestoneReached(s, snap)
          THEN {Msg("MILESTONE_MESSAGE", s.stats.nextMilestoneKwh)} ELSE {})
    \cup (IF CleaningDue(s, t)
          THEN {Msg("CLEANING_REMINDER", s.config.cleaningIntervalWeeks)} ELSE {})

\* line 367: the handler suspends at await getGrowattData(true)
runDailyEveningChecks ==
    /\ InFlight(pending) < MaxInFlight
    /\ pending' = [pending EXCEPT !["runDailyEveningChecks"] = @ + 1]
    /\ sent' = {}
    /\ UNCHANGED <<now, state, disk, apiCache, escalated, announced, calls, agg, ret, lookups>>

\* lines 368-386: the fetch returns `result` and the handler runs to its end
runDailyEveningChecksResume(result) ==
    /\ pending["runDailyEveningChecks"] > 0
    /\ pending' = [pending EXCEPT !["runDailyEveningChecks"] = @ - 1]
    /\ apiCache' = CacheAfterFetch(apiCache, TRUE, result, now)
    /\ IF result.shape = "error" \/ DailyThrows(result)
       THEN /\ sent' = {}
            /\ UNCHANGED <<state, disk, announced>>
       ELSE /\ state' = DailyEval(state, result, now)
            /\ sent' = DailyMessages(state, result, now)
            /\ disk' = Stringify(state')
            /\ announced' = IF MilestoneReached(state, result)
                            THEN announced \cup {state.stats.nextMilestoneKwh}
                            ELSE announced
    /\ UNCHANGED <<now, escalated, calls, agg, ret, lookups>>

-----------------------------------------------------------------------------
(* MARK_CLEANED, lines 198-202: dispatched without the administrator       *)
(* lookup (line 150 tests the SET_ prefix only).                           *)

MARK_CLEANED ==
    /\ state' = [state EXCEPT !.stats.lastReminderDate = DateAt(now)]
    /\ disk' = Stringify(state')
    /\ sent' = {Msg("CLEANED_REPLY", state.config.cleaningIntervalWeeks * 7)}
    /\ UNCHANGED <<now, apiCache, pending, escalated, announced, calls, agg, ret, lookups>>

-----------------------------------------------------------------------------
(* The SET_ commands, lines 142-157 and 331-353.  The argument is          *)
(* msg.text.split(' ')[1]: nothing, a word, or a decimal numeral, whose    *)
(* value is kept in hundredths.                                            *)

Missing == [kind |-> "missing", text |-> "", hundredths |-> 0]
Word(w) == [kind |-> "word", text |-> w, hundredths |-> 0]
Numeral(h) == [kind |-> "numeral", text |-> "", hundredths |-> h]

NaN == [nan |-> TRUE, v |-> 0]
Number(v) == [nan |-> FALSE, v |-> v]

\* parseFloat(arg), in hundredths
parseFloat(arg) == IF arg.kind = "numeral" THEN Number(arg.hundredths) ELSE NaN

\* parseInt(arg, 10): the digits before the decimal point
parseInt(arg) == IF arg.kind = "numeral" THEN Number(Trunc(arg.hundredths, 100)) ELSE NaN

SetCommands == {"SET_LANG", "SET_COST", "SET_CLEANING_WEEKS", "SET_TEMP_THRESHOLD"}

\* the else branch of each SET_ command
InvalidCommand(s) ==
    [state |-> s, sent |-> {Msg("ERROR_INVALID_COMMAND", "en")}, saved |-> FALSE]

\* lines 331-335
SET_LANG(s, arg) ==
    IF arg.kind = "word" /\ (arg.text = "en" \/ arg.text = "fr")
    THEN [state |-> [s EXCEPT !.config.language = arg.text],
          sent |-> {Msg("SET_LANG_SUCCESS", arg.text)}, saved |-> TRUE]
    ELSE InvalidCommand(s)

\* lines 337-341, with >= for >
SET_COST_AllowsZero(s, arg) ==
    LET cost == parseFloat(arg)
    IN  IF ~cost.nan /\ cost.v >= 0
        THEN [state |-> [s EXCEPT !.config.costPerKwh = cost.v],
              sent |-> {Msg("SET_COST_SUCCESS", cost.v)}, saved |-> TRUE]
        ELSE InvalidCommand(s)

\* lines 337-341
SET_COST(s, arg) ==
    LET cost == parseFloat(arg)
    IN  IF ~cost.nan /\ cost.v > 0
        THEN [state |-> [s EXCEPT !.config.costPerKwh = cost.v],
              sent |-> {Msg("SET_COST_SUCCESS", cost.v)}, saved |-> TRUE]
        ELSE InvalidCommand(s)

\* lines 343-347
SET_CLEANING_WEEKS(s, arg) ==
    LET weeks == parseInt(arg)
    IN  IF ~weeks.nan /\ weeks.v > 0
        THEN [state |-> [s EXCEPT !.config.cleaningIntervalWeeks = weeks.v],
              sent |-> {Msg("SET_CLEANING_WEEKS_SUCCESS", weeks.v)}, saved |-> TRUE]
        ELSE InvalidCommand(s)

\* lines 349-353, with >= for >
SET_TEMP_THRESHOLD_AtThirty(s, arg) ==
    LET temp == parseInt(arg)
    IN  IF ~temp.nan /\ temp.v >= 30
        THEN [state |-> [s EXCEPT !.config.tempThreshold = temp.v],
              sent |-> {Msg("SET_TEMP_THRESHOLD_SUCCESS", temp.v)}, saved |-> TRUE]
        ELSE InvalidCommand(s)

\* lines 349-353
SET_TEMP_THRESHOLD(s, arg) ==
    LET temp == parseInt(arg)
    IN  IF ~temp.nan /\ temp.v > 30
        THEN [state |-> [s EXCEPT !.config.tempThreshold = temp.v],
              sent |-> {Msg("SET_TEMP_THRESHOLD_SUCCESS", temp.v)}, saved |-> TRUE]
        ELSE InvalidCommand(s)

\* commandActions[commandInfo.cmd](msg, commandInfo.lang), line 151
SetAction(cmd, s, arg) ==
    CASE cmd = "SET_LANG" -> SET_LANG(s, arg)
      [] cmd = "SET_COST" -> SET_COST(s, arg)
      [] cmd = "SET_CLEANING_WEEKS" -> SET_CLEANING_WEEKS(s, arg)
      [] cmd = "SET_TEMP_THRESHOLD" -> SET_TEMP_THRESHOLD(s, arg)

\* the members of the group, and those of them who administer it
Users == {"admin", "member"}
Admins == {"admin"}

\* what bot.getChatAdministrators resolves to, or its failure
AdminLookups == {[ok |-> TRUE, admins |-> Admins], [ok |-> FALSE, admins |-> {}]}

\* lines 108-113, every SET_ command passes
isAdmin_Always(lookup, userId) == TRUE

\* lines 108-113
isAdmin(lookup, userId) == lookup.ok /\ userId \in lookup.admins

\* lines 142-151: a message with a SET_ keyword arrives and the handler
\* suspends at await isAdmin
message(cmd, arg, user) ==
    /\ cmd \in SetCommands
    /\ Cardinality(lookups) + InFlight(pending) < MaxInFlight
    /\ lookups' = lookups \cup {[cmd |-> cmd, arg |-> arg, user |-> user]}
    /\ sent' = {}
    /\ UNCHANGED <<now, state, disk, apiCache, pending, escalated, announced,
                   calls, agg, ret>>

\* lines 151-152: isAdmin returns and the handler runs to its end
isAdminReturns(c, lookup) ==
    /\ c \in lookups
    /\ lookups' = lookups \ {c}
    /\ IF isAdmin(lookup, c.user)
       THEN LET done == SetAction(c.cmd, state, c.arg)
            IN  /\ state' = done.state
                /\ sent' = done.sent
                /\ disk' = IF done.saved THEN Stringify(done.state) ELSE disk
       ELSE /\ sent' = {Msg("ERROR_NOT_ADMIN", "en")}
            /\ UNCHANGED <<state, disk>>
    /\ UNCHANGED <<now, apiCache, pending, escalated, announced, calls, agg, ret>>

-----------------------------------------------------------------------------
(* getGrowattData, lines 83-101, step by step: the test of the cache, then *)
(* login, getAllPlantData and logout, each awaited.                        *)

CallIds == 1..MaxCalls

\* no call in progress under this id
IdleCall == [pc |-> "idle"]

NoReturn == [kind |-> "none"]

\* line 85, with <= for <
CacheHit_Inclusive(cache, forceNew, isToday, t) ==
    /\ ~forceNew
    /\ isToday
    /\ cache.data.shape # "null"
    /\ t - cache.timestamp <= CACHE_FRESH_MINUTES

\* line 85: the call is answered from the cache
CacheHit(cache, forceNew, isToday, t) ==
    /\ ~forceNew
    /\ isToday
    /\ cache.data.shape # "null"
    /\ t - cache.timestamp < CACHE_FRESH_MINUTES

\* lines 84-90.  contacted counts the calls made to the vendor.
getGrowattData(id, forceNew, date) ==
    /\ calls[id].pc = "idle"
    /\ \A j \in CallIds : j < id => calls[j].pc # "idle"
    /\ LET isToday == date = DayOf(now)
       IN  IF CacheHit(apiCache, forceNew, isToday, now)
           THEN /\ ret' = [kind |-> "cached", data |-> apiCache.data, contacted |-> 0]
                /\ UNCHANGED calls
           ELSE /\ calls' = [calls EXCEPT ![id] =
                                [pc |-> "login", date |-> date, isToday |-> isToday,
                                 data |-> NoData, contacted |-> 1]]
                /\ UNCHANGED ret
    /\ sent' = {}
    /\ UNCHANGED <<now, state, disk, apiCache, pending, escalated, announced, agg, lookups>>

\* lines 97-100: the catch block turns any failure into the connectivity error
ThrowConnectionError(id) ==
    /\ calls' = [calls EXCEPT ![id] = IdleCall]
    /\ ret' = [kind |-> "error", data |-> ApiError, contacted |-> calls[id].contacted]
    /\ UNCHANGED apiCache

\* line 90 returns or throws; line 91 begins
loginReturns(id, ok) ==
    /\ calls[id].pc = "login"
    /\ IF ok
       THEN /\ calls' = [calls EXCEPT ![id].pc = "query", ![id].contacted = @ + 1]
            /\ UNCHANGED <<ret, apiCache>>
       ELSE ThrowConnectionError(id)
    /\ sent' = {}
    /\ UNCHANGED <<now, state, disk, pending, escalated, announced, agg, lookups>>

\* line 91 returns or throws; line 92 begins
queryReturns(id, result) ==
    /\ calls[id].pc = "query"
    /\ IF result.shape # "error"
       THEN /\ calls' = [calls EXCEPT ![id].pc = "logout", ![id].data = result,
                                      ![id].contacted = @ + 1]
            /\ UNCHANGED <<ret, apiCache>>
       ELSE ThrowConnectionError(id)
    /\ sent' = {}
    /\ UNCHANGED <<now, state, disk, pending, escalated, announced, agg, lookups>>

\* lines 92-96 with 93-95 moved before 92: the cache is written, then logout
\* is awaited
logoutReturns_WritesFirst(id, ok) ==
    /\ calls[id].pc = "logout"
    /\ apiCache' = CacheAfterFetch(apiCache, calls[id].isToday, calls[id].data, now)
    /\ IF ok
       THEN /\ calls' = [calls EXCEPT ![id] = IdleCall]
            /\ ret' = [kind |-> "live", data |-> calls[id].data,
                       contacted |-> calls[id].contacted]
       ELSE /\ calls' = [calls EXCEPT ![id] = IdleCall]
            /\ ret' = [kind |-> "error", data |-> ApiError,
                       contacted |-> calls[id].contacted]
    /\ sent' = {}
    /\ UNCHANGED <<now, state, disk, pending, escalated, announced, agg, lookups>>

\* line 92 returns or throws; lines 93-96
logoutReturns(id, ok) ==
    /\ calls[id].pc = "logout"
    /\ IF ok
       THEN /\ apiCache' = CacheAfterFetch(apiCache, calls[id].isToday, calls[id].data, now)
            /\ calls' = [calls EXCEPT ![id] = IdleCall]
            /\ ret' = [kind |-> "live", data |-> calls[id].data,
                       contacted |-> calls[id].contacted]
       ELSE ThrowConnectionError(id)
    /\ sent' = {}
    /\ UNCHANGED <<now, state, disk, pending, escalated, announced, agg, lookups>>

-----------------------------------------------------------------------------
(* The calendar of Date and date-fns.  A date is its day of the epoch;     *)
(* months are numbered from 1.                                             *)

\* getFullYear(), getMonth() + 1 and getDate() of day d
Civil(d) ==
    LET z == d + 719468
        era == z \div 146097
        doe == z - era * 146097
        yoe == (doe - doe \div 1460 + doe \div 36524 - doe \div 146096) \div 365
        doy == doe - (365 * yoe + yoe \div 4 - yoe \div 100)
        mp == (5 * doy + 2) \div 153
        dom == doy - (153 * mp + 2) \div 5 + 1
        m == IF mp < 10 THEN mp + 3 ELSE mp - 9
    IN  [year |-> yoe + era * 400 + (IF m <= 2 THEN 1 ELSE 0), month |-> m, date |-> dom]

\* the day of the epoch of the civil date y-m-dom, 1 <= m <= 12
DaysFromCivil(y, m, dom) ==
    LET yy == IF m <= 2 THEN y - 1 ELSE y
        era == yy \div 400
        yoe == yy - era * 400
        mp == IF m > 2 THEN m - 3 ELSE m + 9
        doy == (153 * mp + 2) \div 5 + dom - 1
        doe == yoe * 365 + yoe \div 4 - yoe \div 100 + doy
    IN  era * 146097 + doe - 719468

\* setFullYear(y, m - 1, dom): a month past December runs into the next
\* year, and day 0 is the last day of the month before
DateOf(y, m, dom) ==
    DaysFromCivil(y + (m - 1) \div 12, ((m - 1) % 12) + 1, 1) + dom - 1

\* getDay(): 0 is Sunday; day 0 of the epoch was a Thursday
getDay(d) == (d + 4) % 7

\* line 297: { weekStartsOn: 1 }
WeekStartsOn == 1

startOfWeek(d) ==
    d - ((IF getDay(d) < WeekStartsOn THEN 7 ELSE 0) + getDay(d) - WeekStartsOn)

endOfWeek(d) ==
    d + ((IF getDay(d) < WeekStartsOn THEN -7 ELSE 0) + 6 - (getDay(d) - WeekStartsOn))

startOfMonth(d) == DateOf(Civil(d).year, Civil(d).month, 1)

\* the first day of the month after
endOfMonth_NextMonth(d) == DateOf(Civil(d).year, Civil(d).month + 1, 1)

endOfMonth(d) == DateOf(Civil(d).year, Civil(d).month + 1, 0)

eachDayOfInterval(start, end) == [i \in 1..(end - start + 1) |-> start + i - 1]

-----------------------------------------------------------------------------
(* getPeriodTotal, lines 287-311.  history is what the vendor holds for    *)
(* each day: an energy figure that varies from day to day, and one day,    *)
(* history.bad, whose snapshot has the shape history.shape.                *)

IdleAgg == [pc |-> "idle"]

VendorResult(history, day, t) ==
    IF day = history.bad /\ history.shape = "error" THEN ApiError
    ELSE IF day = history.bad /\ history.shape # "full"
         THEN Snapshot(history.shape, day, 0, 0, 0, 0, 0, 0)
         ELSE Snapshot("full", day, 500, DEFAULT_TEMP_THRESHOLD_C - 1, t, 0, 0,
                       history.base + (day % 11))

\* lines 289-292: the fetch throws, or Object.keys(plant.devices) does
DayThrows(snap) == snap.shape \in {"error", "noDevices"}

\* lines 291-294
DayTotal(snap) ==
    IF snap.shape \in {"noPlant", "noDevice", "noHistory"} THEN 0 ELSE snap.eacToday

\* lines 297-303
Interval(date, period) ==
    IF period = "day" THEN <<date>>
    ELSE IF period = "week"
         THEN eachDayOfInterval(startOfWeek(date), endOfWeek(date))
         ELSE eachDayOfInterval(startOfMonth(date), endOfMonth(date))

\* lines 288-289 or 297-307: the interval is computed and the fetch of its
\* first day begins
getPeriodTotal(date, period, history) ==
    /\ agg.pc = "idle"
    /\ agg' = [pc |-> "fetch", period |-> period, date |-> date, history |-> history,
               days |-> Interval(date, period), total |-> 0, fetched |-> <<>>]
    /\ ret' = NoReturn
    /\ sent' = {}
    /\ UNCHANGED <<now, state, disk, apiCache, pending, escalated, announced, calls, lookups>>

\* lines 289-294 and 307-310: the fetch of the day at the head of the
\* interval returns; its total is added and the fetch of the next day begins,
\* or the call returns
getPeriodTotalDay ==
    /\ agg.pc = "fetch"
    /\ LET day == Head(agg.days)
           result == VendorResult(agg.history, day, now)
       IN  /\ apiCache' = CacheAfterFetch(apiCache, day = DayOf(now), result, now)
           /\ IF DayThrows(result)
              THEN /\ agg' = IdleAgg
                   /\ ret' = [kind |-> IF result.shape = "error" THEN "error"
                                       ELSE "TypeError"]
              ELSE IF Len(agg.days) = 1
              THEN /\ agg' = IdleAgg
                   /\ ret' = [kind |-> "total", value |-> agg.total + DayTotal(result),
                              days |-> Append(agg.fetched, day)]
              ELSE /\ agg' = [agg EXCEPT !.days = Tail(@),
                                         !.total = @ + DayTotal(result),
                                         !.fetched = Append(@, day)]
                   /\ UNCHANGED ret
    /\ sent' = {}
    /\ UNCHANGED <<now, state, disk, pending, escalated, announced, calls, lookups>>

-----------------------------------------------------------------------------
(* loadState, lines 57-79, and the start of the process, lines 33-34.      *)

\* JSON.parse throws on the file
CorruptFile == [kind |-> "corrupt"]

\* { ...loaded, ...defaults }: the defaults override the file
Spread_DefaultsWin(defaults, loaded) ==
    [f \in DOMAIN defaults \cup DOMAIN loaded |->
        IF f \in DOMAIN defaults THEN defaults[f] ELSE loaded[f]]

\* { ...defaults, ...loaded }
Spread(defaults, loaded) ==
    [f \in DOMAIN defaults \cup DOMAIN loaded |->
        IF f \in DOMAIN loaded THEN loaded[f] ELSE defaults[f]]

loadState(file) ==
    IF file.kind # "json" THEN DefaultState
    ELSE LET merged == [config |-> Spread(DefaultConfig, file.config),
                        stats |-> Spread(DefaultStats, file.stats),
                        status |-> Spread(DefaultStatus, file.status)]
             dated == [merged EXCEPT !.stats.lastReminderDate = NewDate(@)]
         IN  IF Truthy(dated.status.outageStartTime)
             THEN [dated EXCEPT !.status.outageStartTime = NewDate(@)]
             ELSE dated

\* the process starts again: lines 33-34 run, nothing is in progress
Restart ==
    /\ state' = loadState(disk)
    /\ apiCache' = [data |-> NoData, timestamp |-> 0]
    /\ pending' = [h \in Handlers |-> 0]
    /\ calls' = [id \in CallIds |-> IdleCall]
    /\ agg' = IdleAgg
    /\ ret' = NoReturn
    /\ sent' = {}
    /\ lookups' = {}
    /\ UNCHANGED <<now, disk, escalated, announced>>

-----------------------------------------------------------------------------
(* The schedule, lines 358-362, and the clock.  The clock of the alert     *)
(* state machine is observed at the minute of the hourly cron (5) in the   *)
(* hours just outside and at both ends of the active window, 14 and 15     *)
(* minutes after it in the hours of the window, and at the minute of the   *)
(* daily cron (19:59); Tick moves it to the next such instant.             *)

HourlyCronMinute == 5
DailyCronHour == 19
DailyCronMinute == 59
BeforeDelay == HourlyCronMinute + URGENT_ALERT_DELAY_MINUTES - 1
AtDelay == HourlyCronMinute + URGENT_ALERT_DELAY_MINUTES

MinuteOf(t) == t % MinutesPerHour
HourStart(t) == t - MinuteOf(t)
DayStart(t) == DayOf(t) * MinutesPerDay
At(h, m) == h * MinutesPerHour + m

\* '5 * * * *' and '59 19 * * *'
HourlyCronFires(t) == MinuteOf(t) = HourlyCronMinute
DailyCronFires(t) == getHours(t) = DailyCronHour /\ MinuteOf(t) = DailyCronMinute

\* the watched minutes of a day
WatchedMinutes ==
    {At(CHECK_HOUR_START - 1, HourlyCronMinute), At(CHECK_HOUR_END + 1, HourlyCronMinute),
     At(DailyCronHour, DailyCronMinute)}
    \cup {At(h, m) : h \in {CHECK_HOUR_START, CHECK_HOUR_END},
                     m \in {HourlyCronMinute, BeforeDelay, AtDelay}}

FirstOf(S) == CHOOSE h \in S : \A g \in S : h <= g

\* the first instant after t whose minute of the day is in W
NextInstant(W, t) ==
    LET later == {m \in W : m > t - DayStart(t)}
    IN  IF later # {} THEN DayStart(t) + FirstOf(later)
        ELSE DayStart(t) + MinutesPerDay + FirstOf(W)

RECURSIVE InstantAfter(_, _, _)
InstantAfter(W, t, k) ==
    IF k = 0 THEN t ELSE InstantAfter(W, NextInstant(W, t), k - 1)

StartTime == StartDay * MinutesPerDay + At(CHECK_HOUR_END, HourlyCronMinute)

TickOn(W, start) ==
    /\ now < InstantAfter(W, start, Horizon)
    /\ now' = NextInstant(W, now)
    /\ sent' = {}
    /\ UNCHANGED <<state, disk, apiCache, pending, escalated, announced, calls, agg, ret, lookups>>

Tick == TickOn(WatchedMinutes, StartTime)

-----------------------------------------------------------------------------
(* The alert state machine from the default state: what the vendor may     *)
(* return to an hourly and to a daily check at time t.                     *)

HourlySnaps(t) ==
    {Snapshot("full", DayOf(t), pac, DEFAULT_TEMP_THRESHOLD_C - 1, t, 0, 0, 0) :
        pac \in {0, 500}}
    \cup {Snapshot("noPlant", DayOf(t), 0, 0, 0, 0, 0, 0), ApiError}

DailySnaps(t) ==
    {Snapshot("full", DayOf(t), 500, DEFAULT_TEMP_THRESHOLD_C - 1, t, 12, 950, 12),
     Snapshot("noDevice", DayOf(t), 0, 0, 0, 0, 950, 0), ApiError}

Init ==
    /\ now = StartTime
    /\ state = DefaultState
    /\ disk = AbsentFile
    /\ apiCache = [data |-> NoData, timestamp |-> 0]
    /\ pending = [h \in Handlers |-> 0]
    /\ sent = {}
    /\ escalated = FALSE
    /\ announced = {}
    /\ calls = [id \in CallIds |-> IdleCall]
    /\ agg = IdleAgg
    /\ ret = NoReturn
    /\ lookups = {}

Next ==
    \/ Tick
    \/ HourlyCronFires(now) /\ runHourlyChecks
    \/ \E result \in HourlySnaps(now) : runHourlyChecksResume(result)
    \/ checkUrgentConditions
    \/ DailyCronFires(now) /\ runDailyEveningChecks
    \/ \E result \in DailySnaps(now) : runDailyEveningChecksResume(result)
    \/ MARK_CLEANED

Spec == Init /\ [][Next]_vars

-----------------------------------------------------------------------------
(* The hourly check alone, with every reading the vendor may return.  The  *)
(* clock is observed at the minute of the hourly cron in the hours just    *)
(* outside and at both ends of the window, and one minute before the last  *)
(* of them: 10:05, 15:05, 16:04 and 16:05 are 5 h, 5 h 59 min and 6 h      *)
(* apart.                                                                  *)

HourlyWatchedMinutes ==
    {At(h, HourlyCronMinute) :
        h \in {CHECK_HOUR_START - 1, CHECK_HOUR_START, CHECK_HOUR_END, CHECK_HOUR_END + 1}}
    \cup {At(CHECK_HOUR_END + 1, HourlyCronMinute - 1)}

HourlyStartTime == StartDay * MinutesPerDay + At(CHECK_HOUR_START - 1, HourlyCronMinute)

HourlySnapsAll(t) ==
    {Snapshot("full", DayOf(t), pac, temp, t - age, 0, 0, 0) :
        pac \in {0, 500},
        temp \in {DEFAULT_TEMP_THRESHOLD_C - 1, DEFAULT_TEMP_THRESHOLD_C},
        age \in {LIVENESS_CHECK_HOURS * MinutesPerHour - 1,
                 LIVENESS_CHECK_HOURS * MinutesPerHour}}
    \cup {Snapshot("noHistory", DayOf(t), 0, 0, 0, 0, 0, 0), ApiError}

InitHourly ==
    /\ now = HourlyStartTime
    /\ state = DefaultState
    /\ disk = AbsentFile
    /\ apiCache = [data |-> NoData, timestamp |-> 0]
    /\ pending = [h \in Handlers |-> 0]
    /\ sent = {}
    /\ escalated = FALSE
    /\ announced = {}
    /\ calls = [id \in CallIds |-> IdleCall]
    /\ agg = IdleAgg
    /\ ret = NoReturn
    /\ lookups = {}

TickHourly == TickOn(HourlyWatchedMinutes, HourlyStartTime)

NextHourly ==
    \/ TickHourly
    \/ HourlyCronFires(now) /\ runHourlyChecks
    \/ \E result \in HourlySnapsAll(now) : runHourlyChecksResume(result)
    \/ checkUrgentConditions

SpecHourly == InitHourly /\ [][NextHourly]_vars

-----------------------------------------------------------------------------
(* Claims about the alert state machine.                                   *)

Sent(key) == \E m \in sent : m[1] = key
InWindowHours == CHECK_HOUR_START..CHECK_HOUR_END
DownStatus(t) == [isSystemDown |-> TRUE, outageStartTime |-> DateAt(t), urgentAlertSent |-> FALSE]

\* Minutes from the recorded outage start to t
Elapsed(s, t) == t - s.status.outageStartTime.t

EscalationCondition ==
    /\ state.status.isSystemDown
    /\ ~state.status.urgentAlertSent
    /\ Elapsed(state, now) >= 15

\* An hourly check resumes with a snapshot it can read
HourlyEvaluates(result) ==
    /\ result.shape \notin {"error", "noPlant", "noDevices", "noDevice", "noHistory",
                             "noDeviceData"}
    /\ runHourlyChecksResume(result)

\* C1: when an hourly check evaluates a snapshot, power 0 while Up makes the
\* state Down with outageStartTime = now and sends the outage alert; power > 0
\* while Down makes it Up with outageStartTime and urgentAlertSent cleared and
\* sends the recovery alert; otherwise the status is unchanged and neither
\* alert is sent.
C1_OutageTransitions ==
    [][\A result \in HourlySnapsAll(now) : HourlyEvaluates(result) =>
          /\ (result.pac = 0 /\ ~state.status.isSystemDown) =>
                /\ state'.status = DownStatus(now)
                /\ Sent("OUTAGE_MESSAGE")' /\ ~Sent("RECOVERY_MESSAGE")'
          /\ (result.pac > 0 /\ state.status.isSystemDown) =>
                /\ state'.status = DefaultStatus
                /\ Sent("RECOVERY_MESSAGE")' /\ ~Sent("OUTAGE_MESSAGE")'
          /\ (result.pac > 0 <=> ~state.status.isSystemDown) =>
                /\ state'.status = state.status
                /\ ~Sent("OUTAGE_MESSAGE")' /\ ~Sent("RECOVERY_MESSAGE")']_vars

\* C1 witness: a recovery has just been announced, in a check that also sent
\* a temperature alert.
C1_Witness ==
    /\ Sent("RECOVERY_MESSAGE")
    /\ Sent("TEMP_ALERT")
    /\ state.status = DefaultStatus
    /\ disk = Stringify(state)

CooldownMinutes == 6 * MinutesPerHour
StaleMinutes == 2 * MinutesPerHour

\* no alert of this kind yet, or the last one 6 hours or more ago
CooledDown(stamp, t) == ~Truthy(stamp) \/ t - stamp.t >= CooldownMinutes

\* C5: an hourly check that evaluates a snapshot sends the temperature alert
\* exactly when the temperature is at or over the threshold and no
\* temperature alert was sent in the last 6 hours, and then stamps
\* lastTempAlert = now; so an alert is followed by no other within 6 hours and
\* a breach 6 hours or more after it alerts again.  The same holds of the
\* liveness alert and lastLivenessAlert, and each test reads its own stamp only.
C5_Cooldowns ==
    [][\A result \in HourlySnapsAll(now) : HourlyEvaluates(result) =>
          LET hot == result.temperature >= state.config.tempThreshold
              stale == now - result.lastUpdateTime >= StaleMinutes
              tempAlert == hot /\ CooledDown(state.stats.lastTempAlert, now)
              liveAlert == stale /\ CooledDown(state.stats.lastLivenessAlert, now)
          IN  /\ Sent("TEMP_ALERT")' <=> tempAlert
              /\ state'.stats.lastTempAlert =
                    IF tempAlert THEN DateAt(now) ELSE state.stats.lastTempAlert
              /\ Sent("LIVENESS_ALERT")' <=> liveAlert
              /\ state'.stats.lastLivenessAlert =
                    IF liveAlert THEN DateAt(now) ELSE state.stats.lastLivenessAlert]_vars

\* C5 witness: a check whose snapshot was both hot and stale has just sent
\* the temperature alert while the liveness alert, sent less than 6 hours
\* ago, was held back.
C5_Witness ==
    /\ Sent("TEMP_ALERT")
    /\ ~Sent("LIVENESS_ALERT")
    /\ state.stats.lastTempAlert = DateAt(now)
    /\ Truthy(state.stats.lastLivenessAlert)
    /\ now - state.stats.lastLivenessAlert.t < CooldownMinutes
    /\ apiCache.data.temperature >= state.config.tempThreshold
    /\ now - apiCache.data.lastUpdateTime >= StaleMinutes
    /\ apiCache.timestamp = now

\* C2, first part: a per-minute check sends the urgent alert and sets
\* urgentAlertSent exactly when the state is Down, urgentAlertSent is false and
\* 15 minutes or more have passed since outageStartTime; otherwise it changes
\* nothing and sends nothing.
EscalatesExactlyWhenDue ==
    checkUrgentConditions =>
        /\ Sent("URGENT_ALERT_MESSAGE")' <=> EscalationCondition
        /\ EscalationCondition =>
              state' = [state EXCEPT !.status.urgentAlertSent = TRUE]
        /\ ~EscalationCondition => state' = state

\* C2 as claimed: escalation exactly when due, and no second urgent alert
\* before the next recovery alert.
C2_Original ==
    [][/\ EscalatesExactlyWhenDue
       /\ Sent("URGENT_ALERT_MESSAGE")' => ~escalated]_vars

\* C2 as amended: escalation exactly when due, and no second urgent alert
\* within one outage episode: the alert is sent only while urgentAlertSent is
\* false, and urgentAlertSent stays true, with the same outageStartTime, for as
\* long as the state stays Down.
C2_EscalationOncePerEpisode ==
    [][/\ EscalatesExactlyWhenDue
       /\ Sent("URGENT_ALERT_MESSAGE")' => ~state.status.urgentAlertSent
       /\ (state.status.urgentAlertSent /\ state'.status.isSystemDown) =>
              /\ state'.status.urgentAlertSent
              /\ state'.status.outageStartTime = state.status.outageStartTime]_vars

\* C2 witness: on the second day an urgent alert has just been sent for an
\* outage that began exactly 15 minutes ago.
C2_Witness ==
    /\ Sent("URGENT_ALERT_MESSAGE")
    /\ state.status.urgentAlertSent
    /\ Elapsed(state, now) = 15
    /\ DayOf(now) > StartDay

\* C3: outageStartTime is set exactly while the system is down, and
\* urgentAlertSent only while it is down and 15 minutes or more after
\* outageStartTime.
C3_StatusInvariant ==
    /\ Truthy(state.status.outageStartTime) <=> state.status.isSystemDown
    /\ state.status.urgentAlertSent =>
          /\ state.status.isSystemDown
          /\ Elapsed(state, now) >= 15

\* C3 witness: an escalated outage, after a daily check has recorded a best
\* day and a cleaned command has just been answered.
C3_Witness ==
    /\ state.status.urgentAlertSent
    /\ state.stats.bestDay.kwh > 0
    /\ Sent("CLEANED_REPLY")

\* C4: an hourly check that starts outside hours 10..15 fetches nothing,
\* sends nothing, leaves the state not Down with outageStartTime and
\* urgentAlertSent cleared, and changes neither config nor stats.
C4_WindowGate ==
    [][(runHourlyChecks /\ getHours(now) \notin InWindowHours) =>
          /\ pending' = pending
          /\ apiCache' = apiCache
          /\ sent' = {}
          /\ state'.status = DefaultStatus
          /\ state.status.isSystemDown \/ state' = state
          /\ state'.stats = state.stats
          /\ state'.config = state.config]_vars

\* C4 witness: an escalated outage has just been cleared silently, outside
\* the window.
C4_Witness ==
    /\ getHours(now) \notin InWindowHours
    /\ escalated
    /\ ~state.status.isSystemDown
    /\ disk = Stringify(state)
    /\ sent = {}
    /\ InFlight(pending) = 0

-----------------------------------------------------------------------------
(* The daily check alone, one firing of its cron per day, with lifetime    *)
(* totals below, at and above the first threshold, rising and falling from *)
(* one day to the next, and with snapshots the check cannot read.          *)

DailyWatchedMinutes == {At(DailyCronHour, DailyCronMinute)}

DailyStartTime == StartDay * MinutesPerDay + At(DailyCronHour, DailyCronMinute)

LifetimeTotals ==
    {MILESTONE_STEP_KWH - 50, MILESTONE_STEP_KWH, MILESTONE_STEP_KWH + 50,
     3 * MILESTONE_STEP_KWH + 500}

DailySnapsAll(t) ==
    {Snapshot("full", DayOf(t), 500, DEFAULT_TEMP_THRESHOLD_C - 1, t, 12, eTotal, 12) :
        eTotal \in LifetimeTotals}
    \cup {Snapshot("noDeviceData", DayOf(t), 0, 0, 0, 0, MILESTONE_STEP_KWH + 50, 0),
          ApiError}

InitDaily ==
    /\ now = DailyStartTime
    /\ state = DefaultState
    /\ disk = AbsentFile
    /\ apiCache = [data |-> NoData, timestamp |-> 0]
    /\ pending = [h \in Handlers |-> 0]
    /\ sent = {}
    /\ escalated = FALSE
    /\ announced = {}
    /\ calls = [id \in CallIds |-> IdleCall]
    /\ agg = IdleAgg
    /\ ret = NoReturn
    /\ lookups = {}

TickDaily == TickOn(DailyWatchedMinutes, DailyStartTime)

NextDaily ==
    \/ TickDaily
    \/ DailyCronFires(now) /\ runDailyEveningChecks
    \/ \E result \in DailySnapsAll(now) : runDailyEveningChecksResume(result)

SpecDaily == InitDaily /\ [][NextDaily]_vars

-----------------------------------------------------------------------------
(* Claims about the daily check.                                           *)

\* A daily check resumes with a snapshot it can read
DailyEvaluates(result) ==
    /\ result.shape \notin {"error", "noPlant", "noDevices", "noDevice", "noDeviceData"}
    /\ runDailyEveningChecksResume(result)

\* n is the smallest multiple of 1000 strictly greater than total
SmallestMultipleAbove(n, total) ==
    /\ n % 1000 = 0
    /\ n > total
    /\ n - 1000 <= total

MilestonesSent == {m[2] : m \in {x \in sent : x[1] = "MILESTONE_MESSAGE"}}

\* C6: a daily check that evaluates a snapshot sends the milestone alert
\* exactly when the lifetime total is at or above nextMilestoneKwh, names that
\* threshold in it, and then sets nextMilestoneKwh to the smallest multiple of
\* 1000 strictly greater than the lifetime total; otherwise it leaves
\* nextMilestoneKwh alone.  No step of the program lowers nextMilestoneKwh, and
\* no threshold value is announced that was announced before.
C6_Milestones ==
    [][/\ \A result \in DailySnapsAll(now) : DailyEvaluates(result) =>
             IF result.eTotal >= state.stats.nextMilestoneKwh
             THEN /\ MilestonesSent' = {state.stats.nextMilestoneKwh}
                  /\ SmallestMultipleAbove(state'.stats.nextMilestoneKwh, result.eTotal)
             ELSE /\ MilestonesSent' = {}
                  /\ state'.stats.nextMilestoneKwh = state.stats.nextMilestoneKwh
       /\ state'.stats.nextMilestoneKwh >= state.stats.nextMilestoneKwh
       /\ MilestonesSent' \cap announced = {}]_vars

\* C6 witness: the thresholds 1000 and 2000 have been announced, the second
\* just now by a check whose lifetime total was 3500, and the next threshold
\* is 4000.
C6_Witness ==
    /\ announced = {1000, 2000}
    /\ MilestonesSent = {2000}
    /\ apiCache.data.eTotal = 3500
    /\ state.stats.nextMilestoneKwh = 4000
    /\ disk = Stringify(state)

-----------------------------------------------------------------------------
(* The telemetry cache alone: calls of getGrowattData, forced or not, for  *)
(* today or for the day before, that may overlap and may fail at each of   *)
(* their three awaits.  The clock moves minute by minute, CacheHorizon     *)
(* times, from three minutes before midnight.                              *)

CacheStartTime ==
    StartDay * MinutesPerDay + MinutesPerDay - CACHE_FRESH_MINUTES - 1

RequestDates(t) == {DayOf(t) - 1, DayOf(t)}

\* what getAllPlantData may return for `date`, asked at time t
QueryResults(t, date) ==
    {Snapshot("full", date, 500, DEFAULT_TEMP_THRESHOLD_C - 1, DayStart(t), 0, 0, 0), ApiError}

InitCache ==
    /\ now = CacheStartTime
    /\ state = DefaultState
    /\ disk = AbsentFile
    /\ apiCache = [data |-> NoData, timestamp |-> 0]
    /\ pending = [h \in Handlers |-> 0]
    /\ sent = {}
    /\ escalated = FALSE
    /\ announced = {}
    /\ calls = [id \in CallIds |-> IdleCall]
    /\ agg = IdleAgg
    /\ ret = NoReturn
    /\ lookups = {}

TickCache ==
    /\ now < CacheStartTime + CacheHorizon
    /\ now' = now + 1
    /\ sent' = {}
    /\ UNCHANGED <<state, disk, apiCache, pending, escalated, announced, calls, agg, ret, lookups>>

NextCache ==
    \/ TickCache
    \/ \E id \in CallIds, forceNew \in BOOLEAN, date \in RequestDates(now) :
          getGrowattData(id, forceNew, date)
    \/ \E id \in CallIds, ok \in BOOLEAN : loginReturns(id, ok)
    \/ \E id \in CallIds :
          /\ calls[id].pc = "query"
          /\ \E result \in QueryResults(now, calls[id].date) : queryReturns(id, result)
    \/ \E id \in CallIds, ok \in BOOLEAN : logoutReturns(id, ok)

SpecCache == InitCache /\ [][NextCache]_vars

-----------------------------------------------------------------------------
(* The period aggregator alone: one call at a time, for a day, a week or a *)
(* month, around dates in months of 28, 29, 30 and 31 days, at the ends of *)
(* a year, on a Sunday and on a Monday, and today.                         *)

PeriodDates ==
    {DateOf(2024, 2, 29), DateOf(2023, 2, 1), DateOf(2023, 12, 31),
     DateOf(2024, 1, 1), DateOf(2024, 4, 30), DateOf(2100, 2, 14),
     StartDay}

Histories(date) ==
    [base : {0, 7}, bad : {date, date - 2},
     shape : {"full", "noPlant", "noDevices", "noDevice", "noHistory", "error"}]

InitPeriod ==
    /\ now = StartTime
    /\ state = DefaultState
    /\ disk = AbsentFile
    /\ apiCache = [data |-> NoData, timestamp |-> 0]
    /\ pending = [h \in Handlers |-> 0]
    /\ sent = {}
    /\ escalated = FALSE
    /\ announced = {}
    /\ calls = [id \in CallIds |-> IdleCall]
    /\ agg = IdleAgg
    /\ ret = NoReturn
    /\ lookups = {}

NextPeriod ==
    \/ \E date \in PeriodDates, period \in {"day", "week", "month"} :
          \E history \in Histories(date) : getPeriodTotal(date, period, history)
    \/ getPeriodTotalDay

SpecPeriod == InitPeriod /\ [][NextPeriod]_vars

-----------------------------------------------------------------------------
(* The start of the process over a state file that is absent, unreadable,  *)
(* or holds any subset of the fields of config, stats and status.          *)

PersistedConfig ==
    [language |-> "fr", costPerKwh |-> DEFAULT_COST_PER_KWH + 13,
     currencySymbol |-> "EUR", cleaningIntervalWeeks |-> DEFAULT_CLEANING_WEEKS - 2,
     tempThreshold |-> DEFAULT_TEMP_THRESHOLD_C + 10]

PersistedStats ==
    [lastReminderDate |-> Iso(StartTime - MinutesPerDay),
     nextMilestoneKwh |-> 3 * MILESTONE_STEP_KWH,
     bestDay |-> [date |-> Ymd(StartDay - 1), kwh |-> 20],
     lastLivenessAlert |-> Iso(StartTime - MinutesPerHour),
     lastTempAlert |-> Iso(StartTime - 2 * MinutesPerHour)]

PersistedStatus ==
    [isSystemDown |-> TRUE, outageStartTime |-> Iso(StartTime - MinutesPerHour),
     urgentAlertSent |-> TRUE]

\* the fields S of the object r
Restrict(r, S) == [f \in S |-> r[f]]

StateFiles ==
    {AbsentFile, CorruptFile}
    \cup {[kind |-> "json", config |-> Restrict(PersistedConfig, c),
           stats |-> Restrict(PersistedStats, s),
           status |-> Restrict(PersistedStatus, u)] :
            c \in SUBSET DOMAIN PersistedConfig,
            s \in SUBSET DOMAIN PersistedStats,
            u \in SUBSET DOMAIN PersistedStatus}

InitLoad ==
    /\ now = StartTime
    /\ disk \in StateFiles
    /\ state = loadState(disk)
    /\ apiCache = [data |-> NoData, timestamp |-> 0]
    /\ pending = [h \in Handlers |-> 0]
    /\ sent = {}
    /\ escalated = FALSE
    /\ announced = {}
    /\ calls = [id \in CallIds |-> IdleCall]
    /\ agg = IdleAgg
    /\ ret = NoReturn
    /\ lookups = {}

NextLoad ==
    \/ MARK_CLEANED
    \/ Restart

SpecLoad == InitLoad /\ [][NextLoad]_vars

-----------------------------------------------------------------------------
(* Claims about the telemetry cache.                                       *)

FreshMinutes == 2

\* C7: a call of getGrowattData returns the cached snapshot, with no login,
\* query or logout call made, exactly when forceNew is false, the date is
\* today, the cache holds a snapshot and its timestamp is less than 120
\* seconds (2 minutes) old; in every other case it calls login.
C7_CacheHitIff ==
    [][\A id \in CallIds, forceNew \in BOOLEAN, date \in RequestDates(now) :
          getGrowattData(id, forceNew, date) =>
             IF /\ ~forceNew
                /\ date = DayOf(now)
                /\ apiCache.data # NoData
                /\ now - apiCache.timestamp < FreshMinutes
             THEN /\ ret' = [kind |-> "cached", data |-> apiCache.data, contacted |-> 0]
                  /\ calls' = calls
             ELSE /\ calls'[id].pc = "login"
                  /\ calls'[id].contacted = 1
                  /\ ret' = ret]_vars

\* C7 witness: a call has been answered from the cache with the snapshot
\* fetched one minute before, while another call is in progress.
C7_Witness ==
    /\ ret.kind = "cached"
    /\ ret.contacted = 0
    /\ ret.data = apiCache.data
    /\ ret.data.date = DayOf(now)
    /\ apiCache.timestamp = now - 1
    /\ \E id \in CallIds : calls[id].pc = "logout"

\* call id fails at login, at the query or at logout
FetchFails(id) ==
    \/ loginReturns(id, FALSE)
    \/ queryReturns(id, ApiError)
    \/ logoutReturns(id, FALSE)

\* the cache holds a snapshot less than 120 seconds (2 minutes) old
FreshEntry == apiCache.data # NoData /\ now - apiCache.timestamp < FreshMinutes

\* C8: a live fetch that fails at login, at the query or at logout returns
\* the connectivity error, and neither the failing step nor any step of a
\* fetch before its logout has returned touches the cache entry; and when
\* the last call to return has failed and the entry holds a snapshot less
\* than 120 seconds old, a call that is not forced and asks for today returns
\* that snapshot.
C8_FailureKeepsCache ==
    [][\A id \in CallIds :
          /\ FetchFails(id) =>
                /\ ret' = [kind |-> "error", data |-> ApiError,
                           contacted |-> calls[id].contacted]
                /\ apiCache' = apiCache
          /\ (calls[id].pc \in {"login", "query"} /\ calls'[id] # calls[id]) =>
                apiCache' = apiCache
          /\ (ret.kind = "error" /\ FreshEntry /\ getGrowattData(id, FALSE, DayOf(now))) =>
                /\ ret' = [kind |-> "cached", data |-> apiCache.data, contacted |-> 0]
                /\ apiCache' = apiCache]_vars

\* C8 witness: a fetch for today has failed at logout, after login and the
\* query succeeded, and the cache still holds an older snapshot, less than
\* 120 seconds old.
C8_Witness ==
    /\ ret.kind = "error"
    /\ ret.contacted = 3
    /\ FreshEntry
    /\ apiCache.timestamp < now

-----------------------------------------------------------------------------
(* Claims about the period aggregator.                                     *)

\* the calendar days of the month that contains date
MonthDays(date) ==
    {d \in (date - 31)..(date + 31) :
        /\ Civil(d).year = Civil(date).year
        /\ Civil(d).month = Civil(date).month}

\* the seven days, Monday to Sunday, of the week that contains date
WeekDays(date) ==
    {d \in (date - 6)..(date + 6) :
        \E monday \in (date - 6)..date :
            getDay(monday) = 1 /\ d \in monday..(monday + 6)}

\* what getPeriodTotal(d, 'day') returns
PeriodTotalOfDay(history, d, t) == DayTotal(VendorResult(history, d, t))

RECURSIVE SumOfDays(_, _, _)
SumOfDays(S, history, t) ==
    IF S = {} THEN 0
    ELSE LET d == CHOOSE x \in S : TRUE
         IN  PeriodTotalOfDay(history, d, t) + SumOfDays(S \ {d}, history, t)

\* the elements of a sequence
Elements(seq) == {seq[i] : i \in DOMAIN seq}

\* C9: a month call returns the sum of the day totals over exactly the
\* calendar days of the month containing the date, each fetched once, and a
\* week call the sum over the seven days Monday to Sunday of the week
\* containing the date; the call returns a total exactly when no day of the
\* period fails, and a day call returns the day total.
C9_PeriodIsSumOfDays ==
    [][(getPeriodTotalDay /\ agg'.pc = "idle") =>
          LET days == IF agg.period = "month" THEN MonthDays(agg.date)
                      ELSE IF agg.period = "week" THEN WeekDays(agg.date)
                      ELSE {agg.date}
              fails == \E d \in days : DayThrows(VendorResult(agg.history, d, now))
          IN  /\ ret'.kind = "total" <=> ~fails
              /\ ret'.kind = "total" =>
                    /\ ret'.value = SumOfDays(days, agg.history, now)
                    /\ Elements(ret'.days) = days
                    /\ Len(ret'.days) = Cardinality(days)
              /\ agg.period = "week" => Cardinality(days) = 7]_vars

\* C9 witness: a month call has returned a total, above zero, over the 29
\* days of a leap February.
C9_Witness ==
    /\ ret.kind = "total"
    /\ Len(ret.days) = 29
    /\ ret.value > 0
    /\ Civil(ret.days[29]).month = 2
    /\ agg.pc = "idle"

-----------------------------------------------------------------------------
(* Claims about loadState.                                                 *)

StampFields == {"lastReminderDate", "lastLivenessAlert", "lastTempAlert", "outageStartTime"}

\* the loaded value is the persisted one; a timestamp may be loaded as the
\* Date of the persisted ISO string
SameValue(f, loaded, persisted) ==
    IF f \in StampFields THEN ToJSON(loaded) = persisted ELSE loaded = persisted

\* s is what loading file must yield
Loaded(s, file) ==
    IF file.kind # "json" THEN s = DefaultState
    ELSE \A section \in {"config", "stats", "status"} :
            /\ DOMAIN s[section] = DOMAIN DefaultState[section]
            /\ \A f \in DOMAIN DefaultState[section] :
                  IF f \in DOMAIN file[section]
                  THEN SameValue(f, s[section][f], file[section][f])
                  ELSE s[section][f] = DefaultState[section][f]

\* C10: the state the process starts with has, for every field of config,
\* stats and status, the persisted value when the file holds the field and
\* the default when it does not; an absent or unreadable file gives the
\* default state.
C10_LoadMergesDefaults ==
    /\ Loaded(state, disk)
    /\ [][Restart => Loaded(state', disk)]_vars

\* C10 witness: the process has started over a file that holds costPerKwh,
\* nextMilestoneKwh and outageStartTime and lacks language, bestDay and
\* isSystemDown.
C10_Witness ==
    /\ disk.kind = "json"
    /\ DOMAIN disk.config = {"costPerKwh"}
    /\ DOMAIN disk.stats = {"nextMilestoneKwh"}
    /\ DOMAIN disk.status = {"outageStartTime"}
    /\ state.config.costPerKwh = PersistedConfig.costPerKwh
    /\ state.config.language = DefaultConfig.language
    /\ state.stats.nextMilestoneKwh = PersistedStats.nextMilestoneKwh
    /\ state.stats.bestDay = DefaultStats.bestDay
    /\ state.status.outageStartTime = DateAt(PersistedStatus.outageStartTime.t)
    /\ ~state.status.isSystemDown

-----------------------------------------------------------------------------
(* The chat commands that write the state: the four SET_ commands, from an *)
(* administrator and from another member, with the administrator lookup    *)
(* succeeding or failing, and the cleaned command.                         *)

\* line 154: any other command runs whoever sent it
cleaned(user) == MARK_CLEANED

\* arguments at and around the bounds each command tests: 0, 0.5, 30, 31.5
ArgsOf(cmd) ==
    CASE cmd = "SET_LANG" -> {Missing, Word("fr"), Word("de")}
      [] cmd = "SET_COST" -> {Missing, Word("de"), Numeral(0), Numeral(50)}
      [] cmd = "SET_CLEANING_WEEKS" -> {Missing, Numeral(50), Numeral(3150)}
      [] cmd = "SET_TEMP_THRESHOLD" -> {Missing, Word("de"), Numeral(3000), Numeral(3150)}

InitCommands ==
    /\ now = StartTime
    /\ state = DefaultState
    /\ disk = AbsentFile
    /\ apiCache = [data |-> NoData, timestamp |-> 0]
    /\ pending = [h \in Handlers |-> 0]
    /\ sent = {}
    /\ escalated = FALSE
    /\ announced = {}
    /\ calls = [id \in CallIds |-> IdleCall]
    /\ agg = IdleAgg
    /\ ret = NoReturn
    /\ lookups = {}

NextCommands ==
    \/ \E cmd \in SetCommands, user \in Users :
          \E arg \in ArgsOf(cmd) : message(cmd, arg, user)
    \/ \E c \in lookups, lookup \in AdminLookups : isAdminReturns(c, lookup)
    \/ \E user \in Users : cleaned(user)

SpecCommands == InitCommands /\ [][NextCommands]_vars

-----------------------------------------------------------------------------
(* Claims about the chat commands.                                         *)

NotAuthorized == sent = {Msg("ERROR_NOT_ADMIN", "en")}

\* the caller of c is not an administrator, or the lookup failed
Refused(c, lookup) == ~lookup.ok \/ c.user \notin Admins

\* C11 as stated, with the cleaned command among the commands that write the
\* state: a command from a caller who is not an administrator answers
\* not-authorized and leaves config, stats and status unchanged.
C11_Original ==
    [][/\ \A c \in lookups, lookup \in AdminLookups :
             (Refused(c, lookup) /\ isAdminReturns(c, lookup)) =>
                NotAuthorized' /\ state' = state
       /\ \A user \in Users \ Admins :
             cleaned(user) => NotAuthorized' /\ state' = state]_vars

\* C11, amended: a SET_ command from a caller who is not an administrator, or
\* whose administrator lookup fails, answers not-authorized and leaves config,
\* stats, status and the state file unchanged; a cleaned command from any
\* caller sets lastReminderDate to now, saves, and answers with the days to the
\* next reminder.
C11_SetCommandsNeedAdmin ==
    [][/\ \A c \in lookups, lookup \in AdminLookups :
             (Refused(c, lookup) /\ isAdminReturns(c, lookup)) =>
                NotAuthorized' /\ state' = state /\ disk' = disk
       /\ \A user \in Users :
             cleaned(user) =>
                /\ state' = [state EXCEPT !.stats.lastReminderDate = DateAt(now)]
                /\ disk' = Stringify(state')
                /\ Sent("CLEANED_REPLY")' /\ ~NotAuthorized']_vars

\* C11 witness: a SET_ command with a valid argument has just been refused,
\* after an earlier one from an administrator changed the configuration.
C11_Witness ==
    /\ NotAuthorized
    /\ lookups = {}
    /\ state.config # DefaultConfig
    /\ disk = Stringify(state)

\* the argument is one the command accepts
ValidArgument(c) ==
    CASE c.cmd = "SET_LANG" -> c.arg.kind = "word" /\ c.arg.text \in {"en", "fr"}
      [] c.cmd = "SET_COST" -> c.arg.kind = "numeral" /\ c.arg.hundredths > 0
      [] c.cmd = "SET_CLEANING_WEEKS" ->
            c.arg.kind = "numeral" /\ c.arg.hundredths \div 100 > 0
      [] c.cmd = "SET_TEMP_THRESHOLD" ->
            c.arg.kind = "numeral" /\ c.arg.hundredths \div 100 > 30

\* the field of config the command sets
FieldOf(cmd) ==
    CASE cmd = "SET_LANG" -> "language"
      [] cmd = "SET_COST" -> "costPerKwh"
      [] cmd = "SET_CLEANING_WEEKS" -> "cleaningIntervalWeeks"
      [] cmd = "SET_TEMP_THRESHOLD" -> "tempThreshold"

\* the value the argument stands for
ValueOf(c) ==
    CASE c.cmd = "SET_LANG" -> c.arg.text
      [] c.cmd = "SET_COST" -> c.arg.hundredths
      [] OTHER -> c.arg.hundredths \div 100

\* C12: a SET_ command from an administrator whose argument is missing or
\* invalid (language not en or fr, cost not > 0, weeks not > 0, threshold not
\* > 30) answers invalid-command and leaves config, stats, status and the
\* state file unchanged; one whose argument is valid sets its own field of
\* config to the value, changes nothing else, and saves.
C12_SetValidation ==
    [][\A c \in lookups :
          isAdminReturns(c, [ok |-> TRUE, admins |-> Admins]) /\ c.user \in Admins =>
             IF ValidArgument(c)
             THEN /\ state' = [state EXCEPT !.config[FieldOf(c.cmd)] = ValueOf(c)]
                  /\ disk' = Stringify(state')
                  /\ ~Sent("ERROR_INVALID_COMMAND")'
             ELSE /\ sent' = {Msg("ERROR_INVALID_COMMAND", "en")}
                  /\ state' = state
                  /\ disk' = disk]_vars

\* C12 witness: a threshold of 30 has just been refused as invalid, after a
\* threshold of 31 and a cost of 0.5 were accepted.
C12_Witness ==
    /\ sent = {Msg("ERROR_INVALID_COMMAND", "en")}
    /\ state.config.tempThreshold = 31
    /\ state.config.costPerKwh = 50
    /\ state.config.language = DefaultConfig.language
    /\ disk = Stringify(state)

-----------------------------------------------------------------------------
(* Claims about persistence and scheduling.                                *)

\* a handler is suspended at its await
Suspended == InFlight(pending) > 0

HandlerBegins ==
    \/ checkUrgentConditions
    \/ runHourlyChecks
    \/ runDailyEveningChecks
    \/ MARK_CLEANED

\* C14 as stated: no handler begins while another, suspended at its await,
\* has not run to its end.
C14_Original ==
    [][HandlerBegins => ~Suspended]_vars

-----------------------------------------------------------------------------
(* The hourly and the daily check over every way a fetch can end: a full   *)
(* snapshot, each missing structure, a failed fetch.                       *)

ChecksWatchedMinutes ==
    {At(h, HourlyCronMinute) : h \in {CHECK_HOUR_START, CHECK_HOUR_END, CHECK_HOUR_END + 1}}
    \cup {At(DailyCronHour, DailyCronMinute)}

ChecksStartTime == StartDay * MinutesPerDay + At(CHECK_HOUR_START, HourlyCronMinute)

MissingShapes == {"noPlant", "noDevices", "noDevice", "noHistory", "noDeviceData"}

\* what the vendor can answer to the hourly check at t
HourlyResults(t) ==
    {Snapshot("full", DayOf(t), pac, DEFAULT_TEMP_THRESHOLD_C - 1, t, 0, 0, 0) :
        pac \in {0, 500}}
    \cup {Snapshot(shape, DayOf(t), 0, DEFAULT_TEMP_THRESHOLD_C, 0, 0, 0, 0) :
             shape \in MissingShapes}
    \cup {ApiError}

\* what the vendor can answer to the daily check at t
DailyResults(t) ==
    {Snapshot("full", DayOf(t), 500, DEFAULT_TEMP_THRESHOLD_C - 1, t, 12,
              MILESTONE_STEP_KWH + 50, 12)}
    \cup {Snapshot(shape, DayOf(t), 0, 0, 0, 12, MILESTONE_STEP_KWH + 50, 0) :
             shape \in MissingShapes}
    \cup {ApiError}

InitChecks ==
    /\ now = ChecksStartTime
    /\ state = DefaultState
    /\ disk = AbsentFile
    /\ apiCache = [data |-> NoData, timestamp |-> 0]
    /\ pending = [h \in Handlers |-> 0]
    /\ sent = {}
    /\ escalated = FALSE
    /\ announced = {}
    /\ calls = [id \in CallIds |-> IdleCall]
    /\ agg = IdleAgg
    /\ ret = NoReturn
    /\ lookups = {}

TickChecks == TickOn(ChecksWatchedMinutes, ChecksStartTime)

NextChecks ==
    \/ TickChecks
    \/ HourlyCronFires(now) /\ runHourlyChecks
    \/ \E result \in HourlyResults(now) : runHourlyChecksResume(result)
    \/ DailyCronFires(now) /\ runDailyEveningChecks
    \/ \E result \in DailyResults(now) : runDailyEveningChecksResume(result)

SpecChecks == InitChecks /\ [][NextChecks]_vars

\* the fetch failed, or the snapshot has no plant, no device collection or
\* no device
FailedTick(result) == result.shape \in {"error", "noPlant", "noDevices", "noDevice"}

\* C15: when the fetch of an hourly or daily check fails, or its snapshot
\* lacks the plant or the device, the check sends nothing, leaves the
\* configuration, the statistics, the outage status and the state file as
\* they were, and ends: the handler is no longer suspended, so the next
\* firing of its cron starts it again.
C15_FailedTickChangesNothing ==
    [][/\ \A result \in HourlyResults(now) :
             FailedTick(result) /\ runHourlyChecksResume(result) =>
                 /\ sent' = {}
                 /\ state' = state
                 /\ disk' = disk
                 /\ pending' = [pending EXCEPT !["runHourlyChecks"] = @ - 1]
       /\ \A result \in DailyResults(now) :
             FailedTick(result) /\ runDailyEveningChecksResume(result) =>
                 /\ sent' = {}
                 /\ state' = state
                 /\ disk' = disk
                 /\ pending' = [pending EXCEPT !["runDailyEveningChecks"] = @ - 1]]_vars

\* C15 witness: the hourly check of an earlier hour ended on a snapshot
\* without a device (the cache holds it, stamped with that hour), the system
\* is still Down as it was before that check, and the hourly check of the
\* present hour has started and is awaiting its fetch.
C15_Witness ==
    /\ apiCache.data.shape = "noDevice"
    /\ apiCache.timestamp < now
    /\ MinuteOf(apiCache.timestamp) = HourlyCronMinute
    /\ getHours(apiCache.timestamp) = CHECK_HOUR_START
    /\ state.status.isSystemDown
    /\ state.status.outageStartTime = DateAt(apiCache.timestamp)
    /\ HourlyCronFires(now)
    /\ pending["runHourlyChecks"] = 1

-----------------------------------------------------------------------------
(* Claims about getPeriodTotal on snapshots that lack structure.           *)

\* the fetch succeeded and the snapshot lacks the plant, the plant's device
\* collection, the device or the device's latest-history record
StructureAbsent(snap) == snap.shape \in {"noPlant", "noDevices", "noDevice", "noHistory"}

\* the call for one day whose fetch is about to return
DayCallReturns ==
    /\ agg.pc = "fetch"
    /\ agg.period = "day"
    /\ getPeriodTotalDay

\* C16 as stated: getPeriodTotal(date, 'day') returns 0 whenever the fetch
\* succeeds on a snapshot that lacks an expected structure, and fails only
\* when the fetch fails.
C16_Original ==
    [][DayCallReturns =>
          LET result == VendorResult(agg.history, Head(agg.days), now)
          IN  /\ StructureAbsent(result) => ret'.kind = "total" /\ ret'.value = 0
              /\ ret'.kind # "total" => result.shape = "error"]_vars

-----------------------------------------------------------------------------
(* Claims about the dates of cached snapshots and the writes to the cache. *)

\* call id, not forced and for today, is answered from the cache
AnsweredFromCache(id) ==
    /\ getGrowattData(id, FALSE, DayOf(now))
    /\ calls' = calls

\* C17 as stated: a call that is not forced and asks for today, when it is
\* answered from the cache, returns a snapshot that was fetched for the day
\* of the call.
C17_Original ==
    [][\A id \in CallIds : AnsweredFromCache(id) => ret'.data.date = DayOf(now)]_vars

\* call id, begun while its target date was today, ends in success
TodayFetchSucceeds(id) ==
    /\ calls[id].pc = "logout"
    /\ calls[id].isToday
    /\ logoutReturns(id, TRUE)

\* call id, begun for a date that was not today, ends in success
OtherDateFetchSucceeds(id) ==
    /\ calls[id].pc = "logout"
    /\ ~calls[id].isToday
    /\ logoutReturns(id, TRUE)

\* C18: the cache entry changes only in the step in which a live fetch whose
\* target date was today when the call was made succeeds, and it then holds
\* exactly the snapshot of that fetch with the current time as timestamp; a
\* live fetch for another date that succeeds leaves data and timestamp as
\* they were, and returns its own snapshot.
C18_CacheWrittenByTodayFetchOnly ==
    [][/\ apiCache' # apiCache => \E id \in CallIds : TodayFetchSucceeds(id)
       /\ \A id \in CallIds :
             /\ TodayFetchSucceeds(id) =>
                   /\ apiCache' = [data |-> calls[id].data, timestamp |-> now]
                   /\ ret'.kind = "live" /\ ret'.data = calls[id].data
             /\ OtherDateFetchSucceeds(id) =>
                   /\ apiCache' = apiCache
                   /\ ret'.kind = "live" /\ ret'.data = calls[id].data]_vars

\* C18 witness: the last call to return was a live fetch for the day before
\* the day of the cached snapshot, it succeeded, and the cache still holds
\* the snapshot and the timestamp of the earlier fetch.
C18_Witness ==
    /\ ret.kind = "live"
    /\ apiCache.data # NoData
    /\ ret.data.date = apiCache.data.date - 1
    /\ apiCache.data.date = DayOf(apiCache.timestamp)
    /\ apiCache.timestamp < now

-----------------------------------------------------------------------------
(* The daily statistics over more than a week: the daily check every       *)
(* evening, the fetch answered at once or a minute late, and the cleaned   *)
(* command at either minute.  The cleaning interval is one week, as an     *)
(* administrator has set it, or the default.                               *)

StatsWatchedMinutes ==
    {At(DailyCronHour, DailyCronMinute), At(DailyCronHour, DailyCronMinute) + 1}

StatsStartTime == StartDay * MinutesPerDay + At(DailyCronHour, DailyCronMinute)

\* device.deviceData.eToday
EnergyToday == {8, 12}

StatsSnaps(t) ==
    {Snapshot("full", DayOf(t), 500, DEFAULT_TEMP_THRESHOLD_C - 1, t, eToday,
              MILESTONE_STEP_KWH - 50, eToday) : eToday \in EnergyToday}

\* /setcleaningweeks 1 has been handled, or no set command has
StatsStates ==
    {DefaultState, [DefaultState EXCEPT !.config.cleaningIntervalWeeks = 1]}

InitStats ==
    /\ now = StatsStartTime
    /\ state \in StatsStates
    /\ disk = IF state = DefaultState THEN AbsentFile ELSE Stringify(state)
    /\ apiCache = [data |-> NoData, timestamp |-> 0]
    /\ pending = [h \in Handlers |-> 0]
    /\ sent = {}
    /\ escalated = FALSE
    /\ announced = {}
    /\ calls = [id \in CallIds |-> IdleCall]
    /\ agg = IdleAgg
    /\ ret = NoReturn
    /\ lookups = {}

TickStats ==
    /\ now < InstantAfter(StatsWatchedMinutes, StatsStartTime, StatsHorizon)
    /\ now' = NextInstant(StatsWatchedMinutes, now)
    /\ sent' = {}
    /\ UNCHANGED <<state, disk, apiCache, pending, escalated, announced, calls, agg, ret, lookups>>

NextStats ==
    \/ TickStats
    \/ DailyCronFires(now) /\ runDailyEveningChecks
    \/ \E result \in StatsSnaps(now) : runDailyEveningChecksResume(result)
    \/ MARK_CLEANED

SpecStats == InitStats /\ [][NextStats]_vars

BestDayAlerts == {m \in sent : m[1] = "BEST_DAY_MESSAGE"}

\* C19: a daily check that evaluates a snapshot replaces bestDay, by today's
\* date and today's energy, and sends the best-day alert naming that energy,
\* exactly when today's energy is strictly greater than bestDay.kwh; with an
\* equal or a smaller energy bestDay stays as it is and no best-day alert is
\* sent.  No step of the program lowers bestDay.kwh.
C19_BestDayOnlyWhenExceeded ==
    [][/\ \A result \in StatsSnaps(now) : DailyEvaluates(result) =>
             IF result.eToday > state.stats.bestDay.kwh
             THEN /\ state'.stats.bestDay =
                        [date |-> Ymd(DayOf(now)), kwh |-> result.eToday]
                  /\ BestDayAlerts' = {Msg("BEST_DAY_MESSAGE", result.eToday)}
             ELSE /\ state'.stats.bestDay = state.stats.bestDay
                  /\ BestDayAlerts' = {}
       /\ state'.stats.bestDay.kwh >= state.stats.bestDay.kwh]_vars

\* C19 witness: the best day is an earlier day with 12 kWh, and the check of
\* today has just evaluated a snapshot with 12 kWh again and sent no
\* best-day alert.
C19_Witness ==
    /\ state.stats.bestDay.kwh = 12
    /\ state.stats.bestDay.date = Ymd(DayOf(now) - 1)
    /\ apiCache.timestamp = now
    /\ apiCache.data.eToday = 12
    /\ BestDayAlerts = {}
    /\ pending["runDailyEveningChecks"] = 0

CleaningReminders == {m \in sent : m[1] = "CLEANING_REMINDER"}

\* whole days from lastReminderDate to t
WholeDaysSinceReminder(s, t) == (t - s.stats.lastReminderDate.t) \div MinutesPerDay

\* C20: a daily check that evaluates a snapshot sends the cleaning reminder
\* exactly when at least cleaningIntervalWeeks * 7 whole days have passed
\* since lastReminderDate, and then sets lastReminderDate to now; otherwise it
\* leaves lastReminderDate alone.  The cleaned command sets lastReminderDate
\* to now, and nothing else changes it; so every reminder comes at least a
\* full interval after the last reminder or cleaned command.
C20_CleaningReminder ==
    [][/\ \A result \in StatsSnaps(now) : DailyEvaluates(result) =>
             IF WholeDaysSinceReminder(state, now) >= state.config.cleaningIntervalWeeks * 7
             THEN /\ CleaningReminders' =
                        {Msg("CLEANING_REMINDER", state.config.cleaningIntervalWeeks)}
                  /\ state'.stats.lastReminderDate = DateAt(now)
             ELSE /\ CleaningReminders' = {}
                  /\ state'.stats.lastReminderDate = state.stats.lastReminderDate
       /\ MARK_CLEANED => state'.stats.lastReminderDate = DateAt(now)
       /\ state'.stats.lastReminderDate # state.stats.lastReminderDate =>
             state'.stats.lastReminderDate = DateAt(now)
       /\ CleaningReminders' # {} =>
             now - state.stats.lastReminderDate.t >=
                 state.config.cleaningIntervalWeeks * 7 * MinutesPerDay]_vars

\* C20 witness: the check of the start day was evaluated (its energy is the
\* best day), so the reminder date was then at the start time or later; one
\* week later the interval of one week has passed and the check has just
\* sent the reminder and set the reminder date to now.
C20_Witness ==
    /\ state.config.cleaningIntervalWeeks = 1
    /\ state.stats.bestDay.date = Ymd(StartDay)
    /\ now >= StatsStartTime + 7 * MinutesPerDay
    /\ CleaningReminders = {Msg("CLEANING_REMINDER", 1)}
    /\ state.stats.lastReminderDate = DateAt(now)
    /\ disk = Stringify(state)

-----------------------------------------------------------------------------
(* The set commands beside the scheduled actions: the last hourly check   *)
(* of the window and the daily check, with commands of administrators and  *)
(* members arriving at either instant.                                     *)

SettingsWatchedMinutes ==
    {At(CHECK_HOUR_END, HourlyCronMinute), At(DailyCronHour, DailyCronMinute)}

\* what the vendor answers to the checks at t: no power, a day of 12 kWh
SettingsSnaps(t) ==
    {Snapshot("full", DayOf(t), 0, DEFAULT_TEMP_THRESHOLD_C - 1, t, 12,
              MILESTONE_STEP_KWH - 50, 12)}

\* an argument each command accepts and one it must refuse
SettingsArgs(cmd) ==
    CASE cmd = "SET_LANG" -> {Word("fr"), Word("de")}
      [] cmd = "SET_COST" -> {Numeral(0), Numeral(50)}
      [] cmd = "SET_CLEANING_WEEKS" -> {Numeral(50), Numeral(200)}
      [] cmd = "SET_TEMP_THRESHOLD" -> {Numeral(3000), Numeral(3150)}

\* the clock moves from the hourly check to the daily check of the same day
TickSettings ==
    /\ now < DayStart(StartTime) + At(DailyCronHour, DailyCronMinute)
    /\ now' = NextInstant(SettingsWatchedMinutes, now)
    /\ sent' = {}
    /\ UNCHANGED <<state, disk, apiCache, pending, escalated, announced, calls, agg, ret, lookups>>

\* a cron callback starts, resumes or runs
ScheduledAction ==
    \/ HourlyCronFires(now) /\ runHourlyChecks
    \/ \E result \in SettingsSnaps(now) : runHourlyChecksResume(result)
    \/ checkUrgentConditions
    \/ DailyCronFires(now) /\ runDailyEveningChecks
    \/ \E result \in SettingsSnaps(now) : runDailyEveningChecksResume(result)

NextSettings ==
    \/ TickSettings
    \/ ScheduledAction
    \/ \E cmd \in SetCommands, user \in Users :
          \E arg \in SettingsArgs(cmd) : message(cmd, arg, user)
    \/ \E c \in lookups, lookup \in AdminLookups : isAdminReturns(c, lookup)

SpecSettings == Init /\ [][NextSettings]_vars

\* language is en or fr, costPerKwh > 0, cleaningIntervalWeeks >= 1 and
\* tempThreshold > 30
ValidSettings(config) ==
    /\ config.language \in {"en", "fr"}
    /\ config.costPerKwh > 0
    /\ config.cleaningIntervalWeeks >= 1
    /\ config.tempThreshold > 30

\* C21: from the default configuration, whatever set commands administrators
\* and members send with whatever arguments, the language is en or fr,
\* costPerKwh > 0, cleaningIntervalWeeks >= 1 and tempThreshold > 30; and no
\* step of a scheduled action (hourly check, daily check, escalation check)
\* changes a field of the configuration.
C21_SettingsStayValid ==
    /\ []ValidSettings(state.config)
    /\ [][ScheduledAction => state'.config = state.config]_vars

\* C21 witness: administrators have changed all four settings, a member's
\* command has just been refused, and the daily check has run since.
C21_Witness ==
    /\ state.config.language = "fr"
    /\ state.config.costPerKwh = 50
    /\ state.config.cleaningIntervalWeeks = 2
    /\ state.config.tempThreshold = 31
    /\ state.stats.bestDay.kwh > 0
    /\ NotAuthorized

-----------------------------------------------------------------------------
(* Overlapping handlers: a fetch so slow that the next hourly check starts *)
(* while the last one still awaits, with the per-minute check and the      *)
(* cleaned command running in between.                                     *)

OverlapWatchedMinutes ==
    {At(CHECK_HOUR_START, HourlyCronMinute), At(CHECK_HOUR_END, HourlyCronMinute),
     At(CHECK_HOUR_END, AtDelay), At(CHECK_HOUR_END + 1, HourlyCronMinute)}

NextOverlap ==
    \/ TickOn(OverlapWatchedMinutes, StartTime)
    \/ HourlyCronFires(now) /\ runHourlyChecksWhile(MaxOverlap)
    \/ \E result \in HourlySnaps(now) : runHourlyChecksResume(result)
    \/ checkUrgentConditions
    \/ MARK_CLEANED

SpecOverlap == Init /\ [][NextOverlap]_vars

Down == state.status.isSystemDown

\* C22: with hourly checks overlapping and the escalation check and the
\* cleaned command running while a check awaits its fetch, each handler tests
\* and updates the state as it is when it runs.  The outage alert is sent in
\* exactly the steps that take the state from Up to Down, and the recovery
\* alert in exactly the steps in which an hourly check takes it from Down to
\* Up (the window gate resets without a fetch and without an alert); the
\* urgent alert is sent only while urgentAlertSent is false and sets it, and
\* it stays set for as long as the state stays Down.  No step undoes another
\* handler's update: the hourly check that resumes leaves configuration and
\* lastReminderDate as the commands left them, the escalation check changes
\* urgentAlertSent alone, the cleaned command lastReminderDate alone, and what
\* each step changes is in the state file after it.
C22_AtomicTestAndUpdate ==
    [][/\ Sent("OUTAGE_MESSAGE")' <=> (~Down /\ Down')
       /\ Sent("RECOVERY_MESSAGE")' => (Down /\ ~Down')
       /\ \A result \in HourlySnaps(now) :
             runHourlyChecksResume(result) =>
                /\ (Down /\ ~Down') => Sent("RECOVERY_MESSAGE")'
                /\ state'.config = state.config
                /\ state'.stats.lastReminderDate = state.stats.lastReminderDate
       /\ Sent("URGENT_ALERT_MESSAGE")' =>
             /\ Down /\ ~state.status.urgentAlertSent
             /\ state' = [state EXCEPT !.status.urgentAlertSent = TRUE]
       /\ (state.status.urgentAlertSent /\ Down') => state'.status.urgentAlertSent
       /\ MARK_CLEANED => state' = [state EXCEPT !.stats.lastReminderDate = DateAt(now)]
       /\ state' # state => disk' = Stringify(state')]_vars

\* C22 witness: two hourly checks overlapped on a slow fetch; one of them
\* has just found no power, made the state Down and sent the outage alert,
\* and the other is still awaiting its fetch, after the cleaned command ran.
C22_Witness ==
    /\ pending["runHourlyChecks"] = 1
    /\ Sent("OUTAGE_MESSAGE")
    /\ Down
    /\ state.status.outageStartTime = DateAt(now)
    /\ state.stats.lastReminderDate # DefaultStats.lastReminderDate

-----------------------------------------------------------------------------
(* Escalation against the hourly checks, on a clock of quarters of an hour *)
(* that starts a quarter before the hourly check of 14:05.  Each cron      *)
(* fires once at its minute: the hourly callback starts in the step in     *)
(* which the clock reaches minute 5, and the clock does not leave an       *)
(* instant at which the per-minute check has an alert to send.  A fetch    *)
(* may return in the minute it was started or any number of quarters       *)
(* later.                                                                  *)

QuarterHour == URGENT_ALERT_DELAY_MINUTES

EscalationStartTime ==
    StartDay * MinutesPerDay + At(CHECK_HOUR_END - 1, HourlyCronMinute) - QuarterHour

InitEscalation ==
    /\ now = EscalationStartTime
    /\ state = DefaultState
    /\ disk = AbsentFile
    /\ apiCache = [data |-> NoData, timestamp |-> 0]
    /\ pending = [h \in Handlers |-> 0]
    /\ sent = {}
    /\ escalated = FALSE
    /\ announced = {}
    /\ calls = [id \in CallIds |-> IdleCall]
    /\ agg = IdleAgg
    /\ ret = NoReturn
    /\ lookups = {}

\* '* * * * *' has run at the present instant whenever it had an alert to
\* send; the clock moves a quarter on and '5 * * * *' fires if that is
\* minute 5
CronTick ==
    /\ ~UrgentDue(state, now)
    /\ now < EscalationStartTime + Quarters * QuarterHour
    /\ now' = now + QuarterHour
    /\ IF HourlyCronFires(now')
       THEN runHourlyChecksAt(now', MaxOverlap)
       ELSE /\ sent' = {}
            /\ UNCHANGED <<state, disk, apiCache, pending, escalated, announced,
                           calls, agg, ret, lookups>>

NextEscalation ==
    \/ CronTick
    \/ \E result \in HourlySnaps(now) : runHourlyChecksResume(result)
    \/ checkUrgentConditions

SpecEscalation == InitEscalation /\ [][NextEscalation]_vars

\* the state leaves Down: by a recovery or by the reset of the window gate
LeavesDown == Down /\ ~Down'

\* C23 as stated: while the per-minute check keeps firing, the urgent alert
\* has been sent for every outage before the state returns to Up or is reset
\* by the window gate, so no recovery alert comes for an outage that was not
\* escalated.
C23_Original ==
    [][LeavesDown => state.status.urgentAlertSent]_vars

\* C23, amended: while the per-minute check keeps firing, the urgent alert
\* has been sent for every outage that leaves Down 16 minutes or more after
\* its onset; the state returns to Up or is reset without an escalation,
\* and a recovery alert comes for an outage that was not escalated, only
\* within those 16 minutes, that is when the fetch that found the outage
\* returned less than 16 minutes before the next hourly check acted.
C23_EscalatedUnlessOnsetLate ==
    [][/\ LeavesDown =>
             state.status.urgentAlertSent \/ Elapsed(state, now) < 16
       /\ (Sent("RECOVERY_MESSAGE")' /\ ~state.status.urgentAlertSent) =>
             Down /\ Elapsed(state, now) < 16]_vars

\* C23 witness: an outage was escalated and the window gate of 16:05 has
\* then reset the state, without a recovery alert.
C23_Witness ==
    /\ escalated
    /\ ~Down
    /\ state.status.outageStartTime = Null
    /\ getHours(now) = CHECK_HOUR_END + 1
    /\ MinuteOf(now) = HourlyCronMinute
    /\ disk = Stringify(state)

=============================================================================
